---- MODULE Spec2Model ----
(***************************************************************************)
(* A model of DirectFileManipulator (livesync-commonlib): the content-     *)
(* addressed file store over a CouchDB-compatible remote (put / get /      *)
(* delete) and its change-feed readers (beginWatch / endWatch /            *)
(* followUpdates).                                                         *)
(*                                                                         *)
(* Every remote request is one step: the instant the remote serves it,     *)
(* together with the client code that runs on the response up to the next  *)
(* request.  Calls of the same store interleave at these steps, as the     *)
(* awaits of the async methods allow.                                      *)
(*                                                                         *)
(* Text is a sequence of one-character strings.  A string that may have    *)
(* gone through encrypt() is a record [k, t]: Clear(text) has k = "" and   *)
(* t the text; encrypt(v, pass) has k = pass and t the string v it hides.  *)
(***************************************************************************)
EXTENDS Integers, Sequences, FiniteSets, TLC

VARIABLES
    options,    \* DirectFileManipulatorOptions: passphrase, obfuscatePassphrase
    metas,      \* remote: id -> metadata document (or NoDoc)
    leaves,     \* remote: the leaf documents, a set of [id, data]
    hashCaches, \* the store's LRUCache, least recently used first
    calls,      \* the put / get / delete calls in flight, by slot
    opsLeft,    \* calls that may still be started
    lastPut,    \* history: path -> what the last accepted put of it wrote
    watching,   \* this.watching
    abortController, \* this._abortController: the loop that holds it, or NoLoop
    since,      \* this.since
    changes,    \* remote: the documents of the changes feed, by seq
    loops,      \* the beginWatch calls past their guard, by slot
    timers,     \* the pending reconnect timers: the callback each will pass
    follow,     \* the followUpdates call
    stopRequested,  \* history: endWatch was called, and beginWatch not since
    endWatchCalled, \* history: endWatch was called
    lastLine,   \* history: the seq of the last line a watcher read a seq from
    lastCbSeq,  \* history: the seq given to the last callback invocation
    reader,     \* a readLines generator over one response body
    enum        \* an enumerateAllNormalDocs generator and the remote it reads

storeVars == <<options, metas, leaves, hashCaches, calls, opsLeft, lastPut>>
feedVars == <<watching, abortController, since, changes, loops, timers, follow,
              stopRequested, endWatchCalled, lastLine, lastCbSeq>>
pureVars == <<reader, enum>>
vars == <<storeVars, feedVars, pureVars>>

----------------------------------------------------------------------------
(* Bounds *)

PieceSize == 2      \* stands for maxChunkSize, scaled to the model's texts
CacheMax == 2       \* stands for the cache's entry bound
MaxOps == 3         \* calls started in one behaviour
MaxSeq == 2         \* changes of the remote database in one behaviour
MaxLoops == 2       \* beginWatch loops alive at once
FollowLimit == 1    \* stands for limit: 25 of followUpdates, scaled to MaxSeq
MaxLines == 2       \* lines of a response body
PageLimit == 2      \* stands for limit: 100 of _enumerate

----------------------------------------------------------------------------
(* Inputs *)

Paths == {"a.md"}

F_abcd == << <<"a", "b", "c">>, <<"d">> >>
F_abce == << <<"a", "b">>, <<"c", "e">> >>
F_abab == << <<"a", "b", "a", "b">> >>
F_a == << <<"a">> >>

Info1 == [ctime |-> 1, mtime |-> 2, size |-> 4]
Info2 == [ctime |-> 3, mtime |-> 4, size |-> 1]

\* The (data, info, type) a put may be called with.
PutInputs ==
    { [data |-> F_abcd, info |-> Info1, type |-> "plain"],
      [data |-> F_abce, info |-> Info1, type |-> "newnote"],
      [data |-> F_abab, info |-> Info1, type |-> "plain"],
      [data |-> F_a, info |-> Info2, type |-> "plain"] }

\* The values Date.now() may return; later than every mtime of PutInputs.
NowTimes == {7}

Configs ==
    { [passphrase |-> "", obfuscatePassphrase |-> ""],
      [passphrase |-> "p", obfuscatePassphrase |-> "p"],
      [passphrase |-> "p", obfuscatePassphrase |-> ""],
      [passphrase |-> "", obfuscatePassphrase |-> "o"] }

\* The slots of the calls in flight at once
Calls == {1, 2}

----------------------------------------------------------------------------
(* Text, chunker, hash, crypto, ids *)

RECURSIVE Join(_)
Join(F) == IF F = <<>> THEN <<>> ELSE Head(F) \o Join(Tail(F))

RECURSIVE Chop(_, _)
Chop(s, n) ==
    IF Len(s) = 0 THEN <<>>
    ELSE IF Len(s) <= n THEN <<s>>
    ELSE <<SubSeq(s, 1, n)>> \o Chop(SubSeq(s, n + 1, Len(s)), n)

\* splitPieces2 (strbin.ts): pieces of at most pieceSize covering the input.
splitPieces2(data, pieceSize) == Chop(Join(data), pieceSize)

Range(s) == {s[i] : i \in DOMAIN s}

\* encrypt / decrypt (e2ee_v2.ts).  decrypt of a value that was not encrypted
\* under the same passphrase fails.
Clear(text) == [k |-> "", t |-> text]
encrypt(v, passphrase) == [k |-> passphrase, t |-> v]
CanDecrypt(v, passphrase) == v.k = passphrase
decrypt(v, passphrase) == v.t

\* leafId = "h:" + hashedPiece, hashedPiece the base-36 _xxhash64 of
\* `${piece}-${piece.length}`, or "+" and the hash of
\* `${piece}-${userPassphrase}-${piece.length}` when a passphrase is set.
\* The hash is collision-free on the model's pieces: it is the tuple it was
\* computed from.
LeafId(piece, passphrase) ==
    IF passphrase # ""
    THEN [pre |-> "h:+", h |-> <<piece, passphrase, Len(piece)>>]
    ELSE [pre |-> "h:", h |-> <<piece, "", Len(piece)>>]

\* path2id_base (path.ts): an obfuscated id under the obfuscation passphrase,
\* else the path itself.
path2id(path, obfuscatePassphrase) ==
    IF obfuscatePassphrase # "" THEN [pre |-> "f:", p |-> path]
    ELSE [pre |-> "", p |-> path]


MetaIds == {path2id(p, o) : p \in Paths, o \in {"", "p", "o"}}

----------------------------------------------------------------------------
(* LRUCache (LRUCache.ts): id -> plaintext and back, least recently used first *)

\* What hashCaches.set(ret.key, chunks[ret.key]) stores for a _bulk_docs
\* result, which has an id and no key: the entry undefined -> undefined.
UndefinedKey == [pre |-> "undefined", h |-> <<>>]
UndefinedValue == [k |-> "undefined", t |-> <<>>]

LRUHas(c, id) == \E i \in DOMAIN c : c[i].id = id /\ c[i].text # UndefinedValue
LRURevHas(c, text) == \E i \in DOMAIN c : c[i].text = text /\ c[i].id # UndefinedKey
LRUPos(c, id) == CHOOSE i \in DOMAIN c : c[i].id = id
LRURevPos(c, text) == CHOOSE i \in DOMAIN c : c[i].text = text
LRURefresh(c, i) == SubSeq(c, 1, i - 1) \o SubSeq(c, i + 1, Len(c)) \o <<c[i]>>

\* get(key) / revGet(value): the value found, and the cache after the lookup
LRUGet(c, id) == c[LRUPos(c, id)].text
LRUAfterGet(c, id) == IF LRUHas(c, id) THEN LRURefresh(c, LRUPos(c, id)) ELSE c
LRURevGet(c, text) == c[LRURevPos(c, text)].id
LRUAfterRevGet(c, text) ==
    IF LRURevHas(c, text) THEN LRURefresh(c, LRURevPos(c, text)) ELSE c

LRUSet(c, id, text) ==
    LET kept == SelectSeq(c, LAMBDA e : e.id # id)
        all == Append(kept, [id |-> id, text |-> text])
    IN  IF Len(all) > CacheMax THEN SubSeq(all, Len(all) - CacheMax + 1, Len(all))
        ELSE all

----------------------------------------------------------------------------
(* Documents *)

NoDoc == [type |-> "none"]
IsMeta(doc) == doc.type \in {"plain", "newnote"}

LeafIdsOf(ls) == {l.id : l \in ls}
LeafOf(ls, id) == CHOOSE l \in ls : l.id = id

\* encryptDocumentPath: the path is encrypted under obfuscatePassphrase
encryptDocumentPath(entry, opt) ==
    [entry EXCEPT !.path =
        IF opt.obfuscatePassphrase # ""
        THEN encrypt(entry.path, opt.obfuscatePassphrase)
        ELSE entry.path]

\* decryptDocumentPath: the path is decrypted under passphrase
CanDecryptDocumentPath(entry, opt) ==
    opt.passphrase # "" => CanDecrypt(entry.path, opt.passphrase)
decryptDocumentPath(entry, opt) ==
    [entry EXCEPT !.path =
        IF opt.passphrase # "" THEN decrypt(entry.path, opt.passphrase)
        ELSE entry.path]

\* The remote's answer to PUT <db>/<id>: accepted when the document's _rev is
\* the current revision (none, 0, for a document that does not exist).
\* (mutant) the remote takes every PUT: the last write wins
RevIgnored(cur, entry) == TRUE
RevMatches(cur, entry) ==
    IF cur = NoDoc THEN entry._rev = 0 ELSE entry._rev = cur._rev
StoredDoc(cur, entry) ==
    [entry EXCEPT !._rev = IF cur = NoDoc THEN 1 ELSE cur._rev + 1]


----------------------------------------------------------------------------
(* Calls *)

NoId == [pre |-> "", p |-> ""]
NoInput == [data |-> <<>>, info |-> [ctime |-> 0, mtime |-> 0, size |-> 0], type |-> "plain"]
NoRes == [kind |-> "none"]
NoPut == [live |-> FALSE, text |-> <<>>, info |-> NoInput.info]

\* A call slot: op and pc say where the call is; children, chunks, found, req,
\* upload and entry are the locals of the same names (found is the ret of
\* _collectChunks, upload is chunksToBeUploaded, entry is theEntry / newData).
\* acked and expect are history: whether _bulk_docs has answered, and what the
\* last accepted put of the path had written when get read the metadata.
IdleCall ==
    [op |-> "idle", pc |-> "idle", id |-> NoId, path |-> "", input |-> NoInput,
     children |-> <<>>, chunks |-> <<>>, found |-> <<>>, req |-> <<>>,
     upload |-> <<>>, entry |-> NoDoc, acked |-> FALSE, rejected |-> FALSE,
     res |-> NoRes, expect |-> NoPut]

Returned(v) == [kind |-> "bool", ok |-> v]
Threw(e) == [kind |-> "throw", err |-> e]

EntryIds(es) == {es[i].id : i \in DOMAIN es}
EntryOf(es, id) == es[CHOOSE i \in DOMAIN es : es[i].id = id]

\* chunks[id] = piece / ret[id] = data: a later assignment to a key keeps its place
SetEntry(es, id, piece) ==
    IF id \in EntryIds(es)
    THEN [i \in DOMAIN es |-> IF es[i].id = id THEN [id |-> id, piece |-> piece] ELSE es[i]]
    ELSE Append(es, [id |-> id, piece |-> piece])

RECURSIVE unique(_)
unique(s) ==
    IF s = <<>> THEN <<>>
    ELSE <<Head(s)>> \o unique(SelectSeq(Tail(s), LAMBDA x : x # Head(s)))

\* put's loop over pieces(): the id of each piece, from the cache by plaintext
\* or else from the hash.
RECURSIVE MakeChunks(_, _, _, _, _)
MakeChunks(pieces, children, chunks, cache, passphrase) ==
    IF pieces = <<>> THEN [children |-> children, chunks |-> chunks, cache |-> cache]
    ELSE LET piece == Clear(Head(pieces))
             hit == LRURevHas(cache, piece)
             leafId == IF hit THEN LRURevGet(cache, piece)
                       ELSE LeafId(Head(pieces), passphrase)
         IN  MakeChunks(Tail(pieces), Append(children, leafId),
                        SetEntry(chunks, leafId, piece),
                        LRUAfterRevGet(cache, piece), passphrase)

\* _collectChunks, up to its request: the ids answered from the cache and the
\* ids to request.
RECURSIVE CollectCached(_, _, _, _)
CollectCached(ids, ret, reqIds, cache) ==
    IF ids = <<>> THEN [ret |-> ret, reqIds |-> reqIds, cache |-> cache]
    ELSE LET id == Head(ids)
         IN  IF LRUHas(cache, id)
             THEN CollectCached(Tail(ids), SetEntry(ret, id, LRUGet(cache, id)),
                                reqIds, LRUAfterGet(cache, id))
             ELSE CollectCached(Tail(ids), ret, Append(reqIds, id), cache)

\* _collectChunks on the rows of _all_docs?include_docs=true: a row with an
\* error leaves its key false (missing); a leaf is decrypted and cached.
RECURSIVE CollectRows(_, _, _, _, _, _)
CollectRows(keys, ret, missing, cache, ls, opt) ==
    IF keys = <<>> THEN [ret |-> ret, missing |-> missing, cache |-> cache, threw |-> FALSE]
    ELSE LET k == Head(keys)
         IN  IF k \notin LeafIdsOf(ls)
             THEN CollectRows(Tail(keys), ret, missing \cup {k}, cache, ls, opt)
             ELSE LET dataSrc == LeafOf(ls, k).data
                  IN  IF opt.passphrase # "" /\ ~CanDecrypt(dataSrc, opt.passphrase)
                      THEN [ret |-> ret, missing |-> missing, cache |-> cache, threw |-> TRUE]
                      ELSE LET data == IF opt.passphrase # ""
                                       THEN decrypt(dataSrc, opt.passphrase)
                                       ELSE dataSrc
                           IN  CollectRows(Tail(keys), SetEntry(ret, k, data), missing,
                                           LRUSet(cache, k, data), ls, opt)

\* The ids _collectChunks(ids, true) reports as existing: those answered from
\* the cache and those whose row has no error.
ExistedIds(ret, reqIds, ls) == EntryIds(ret) \cup (Range(reqIds) \cap LeafIdsOf(ls))

LeafDoc(e, opt) ==
    [id |-> e.id,
     data |-> IF opt.passphrase # "" THEN encrypt(e.piece, opt.passphrase) ELSE e.piece]

RECURSIVE LeafDocs(_, _)
LeafDocs(es, opt) ==
    IF es = <<>> THEN <<>> ELSE <<LeafDoc(Head(es), opt)>> \o LeafDocs(Tail(es), opt)

\* (mutant) every chunk is uploaded, existing or not
ChunksAllUploaded(chunks, existedIds, opt) == LeafDocs(chunks, opt)

\* chunksToBeUploaded: the chunks whose id is not among the existing ones
ChunksToBeUploaded(chunks, existedIds, opt) ==
    LeafDocs(SelectSeq(chunks, LAMBDA e : e.id \notin existedIds), opt)

\* getByMeta: the data of the children in order; a missing one is an error
\* (mutant) getByMeta does not look for a false among the data
ChunksNotChecked(doc, ret) == TRUE
\* !data.some(e => e === false)
HasAllChunks(doc, ret) == \A i \in DOMAIN doc.children : doc.children[i] \in EntryIds(ret)
\* the false that stands in data for a child that was not collected
FalsePiece == [k |-> "false", t |-> <<>>]
\* doc.children.map(e => e in chunks && chunks[e] !== false ? chunks[e] : false)
ChunkData(doc, ret) ==
    [i \in DOMAIN doc.children |->
        IF doc.children[i] \in EntryIds(ret) THEN EntryOf(ret, doc.children[i]).piece
        ELSE FalsePiece]


----------------------------------------------------------------------------
(* put *)

\* A call starts in the lowest free slot.
CanStart(c) ==
    /\ opsLeft > 0
    /\ calls[c].op = "idle"
    /\ \A d \in Calls : d < c => calls[d].op # "idle"

Finish(c, res) == [calls EXCEPT ![c].pc = "done", ![c].res = res]

\* (mutant) the metadata is requested and written without the bulk upload
PcSkipsBulkUpload == "getold"

\* The step that follows the existence check of the chunk ids: the
\* _bulk_docs request, awaited before anything else of put runs.
PcAfterExistenceCheck == "bulk"

\* theEntry, before the prior revision is attached (_rev 0: none)
TheEntry(id, path, children, inp, opt) ==
    encryptDocumentPath(
        [type |-> inp.type, _id |-> id, _rev |-> 0, path |-> Clear(path),
         children |-> children, ctime |-> inp.info.ctime, mtime |-> inp.info.mtime,
         size |-> inp.info.size, deleted |-> FALSE], opt)

\* put, to its first request: the pieces are chunked and given ids, and
\* _collectChunks(ids, true) answers from the cache or asks the remote.
PutStart(c, path, inp) ==
    /\ CanStart(c)
    /\ LET id == path2id(path, options.obfuscatePassphrase)
           mk == MakeChunks(splitPieces2(inp.data, PieceSize), <<>>, <<>>,
                            hashCaches, options.passphrase)
           col == CollectCached([i \in DOMAIN mk.chunks |-> mk.chunks[i].id],
                                <<>>, <<>>, mk.cache)
           started == [IdleCall EXCEPT
                          !.op = "put", !.id = id, !.path = path, !.input = inp,
                          !.children = mk.children, !.chunks = mk.chunks,
                          !.found = col.ret, !.req = unique(col.reqIds),
                          !.entry = TheEntry(id, path, mk.children, inp, options)]
       IN  /\ hashCaches' = col.cache
           /\ calls' = [calls EXCEPT ![c] =
                  IF col.reqIds = <<>>
                  THEN [started EXCEPT
                           !.pc = PcAfterExistenceCheck,
                           !.upload = ChunksToBeUploaded(mk.chunks,
                                          ExistedIds(col.ret, <<>>, leaves), options)]
                  ELSE [started EXCEPT !.pc = "probe"]]
    /\ opsLeft' = opsLeft - 1
    /\ UNCHANGED <<options, metas, leaves, lastPut>>
    /\ UNCHANGED <<feedVars, pureVars>>

\* The remote answers _all_docs {keys}: rows, or a body without rows.
PutProbe(c) ==
    /\ calls[c].op = "put" /\ calls[c].pc = "probe"
    /\ \E hasRows \in BOOLEAN :
         calls' = IF hasRows
                  THEN [calls EXCEPT
                           ![c].pc = PcAfterExistenceCheck,
                           ![c].upload = ChunksToBeUploaded(calls[c].chunks,
                               ExistedIds(calls[c].found, calls[c].req, leaves), options)]
                  ELSE Finish(c, Threw("API Error (_all_docs)"))
    /\ UNCHANGED <<options, metas, leaves, hashCaches, opsLeft, lastPut>>
    /\ UNCHANGED <<feedVars, pureVars>>

\* The per-document results of _bulk_docs, in the order of the documents: a
\* document whose id exists is a conflict; another is created, unless the
\* remote refuses it.
BulkResult(doc, ls, refused) ==
    IF doc.id \in LeafIdsOf(ls) THEN "conflict"
    ELSE IF doc.id \in refused THEN "forbidden"
    ELSE "ok"
BulkResults(docs, ls, refused) == [i \in DOMAIN docs |-> BulkResult(docs[i], ls, refused)]

\* put's loop over the results throws at the first error that is no conflict.
\* (mutant) a conflict stops the write as any other error does
IsFatalWithConflict(result) == result # "ok"
IsFatal(result) == result # "ok" /\ result # "conflict"
\* (mutant) no result stops the write
BulkNeverThrows(results) == FALSE
BulkThrows(results) == \E i \in DOMAIN results : IsFatal(results[i])
\* ... and has set the cache for an ok result met before that.
BulkSetsCache(results) ==
    \E i \in DOMAIN results :
        /\ results[i] = "ok"
        /\ \A j \in 1..(i - 1) : ~IsFatal(results[j])

\* The remote serves _bulk_docs; put reads the results and, when none is
\* fatal, requests the existing metadata.
PutBulk(c) ==
    /\ calls[c].op = "put" /\ calls[c].pc = "bulk"
    /\ \/ \E refused \in SUBSET (EntryIds(calls[c].upload) \ LeafIdsOf(leaves)) :
            LET results == BulkResults(calls[c].upload, leaves, refused)
                created == {calls[c].upload[i] : i \in {j \in DOMAIN results : results[j] = "ok"}}
            IN  /\ leaves' = leaves \cup created
                /\ hashCaches' = IF BulkSetsCache(results)
                                 THEN LRUSet(hashCaches, UndefinedKey, UndefinedValue)
                                 ELSE hashCaches
                /\ calls' = IF BulkThrows(results)
                            THEN [Finish(c, Threw("Chunk uploading failed!")) EXCEPT ![c].acked = TRUE]
                            ELSE [calls EXCEPT ![c].pc = "getold", ![c].acked = TRUE]
       \/ \* the response is no array of results (the request was refused)
          /\ calls' = Finish(c, Threw("apiRet is not iterable"))
          /\ UNCHANGED <<leaves, hashCaches>>
    /\ UNCHANGED <<options, metas, opsLeft, lastPut>>
    /\ UNCHANGED <<feedVars, pureVars>>

\* (mutant) the prior revision is not attached
AttachNoRev(entry, oldData) == entry

\* theEntry._rev = oldData._rev
\* (mutant) the deleted mark of the prior entry is kept with its revision
AttachRevAndMark(entry, oldData) ==
    [entry EXCEPT !._rev = oldData._rev, !.deleted = oldData.deleted]
AttachRev(entry, oldData) == [entry EXCEPT !._rev = oldData._rev]

\* getById(id, true) of put: the prior revision, when there is a metadata entry
PutGetOld(c) ==
    /\ calls[c].op = "put" /\ calls[c].pc = "getold"
    /\ LET docEntry == metas[calls[c].id]
       IN  calls' = IF ~IsMeta(docEntry)
                    THEN [calls EXCEPT ![c].pc = "putmeta"]
                    ELSE IF ~CanDecryptDocumentPath(docEntry, options)
                    THEN Finish(c, Threw("DecryptError"))
                    ELSE [calls EXCEPT
                             ![c].pc = "putmeta",
                             ![c].entry = AttachRev(calls[c].entry,
                                              decryptDocumentPath(docEntry, options))]
    /\ UNCHANGED <<options, metas, leaves, hashCaches, opsLeft, lastPut>>
    /\ UNCHANGED <<feedVars, pureVars>>

\* The remote serves PUT <id> of theEntry; put returns ret.ok.
PutMeta(c) ==
    /\ calls[c].op = "put" /\ calls[c].pc = "putmeta"
    /\ \E serverOk \in BOOLEAN :
         LET cur == metas[calls[c].id]
             accepted == serverOk /\ RevMatches(cur, calls[c].entry)
         IN  /\ metas' = IF accepted
                         THEN [metas EXCEPT ![calls[c].id] = StoredDoc(cur, calls[c].entry)]
                         ELSE metas
             /\ lastPut' = IF accepted
                           THEN [lastPut EXCEPT ![calls[c].id] =
                                    [live |-> TRUE, text |-> Join(calls[c].input.data),
                                     info |-> calls[c].input.info]]
                           ELSE lastPut
             /\ calls' = [Finish(c, Returned(accepted)) EXCEPT ![c].rejected = ~accepted]
    /\ UNCHANGED <<options, leaves, hashCaches, opsLeft>>
    /\ UNCHANGED <<feedVars, pureVars>>


----------------------------------------------------------------------------
(* get *)

LoadedEntry(doc, ret) == [kind |-> "entry", doc |-> doc, data |-> ChunkData(doc, ret)]
NotPresent == [kind |-> "false"]

\* get(path), to the answer of GET <id>: getById returns false for anything
\* but a metadata entry, decrypts the path, and getByMeta collects the
\* children from the cache or asks the remote for the rest.
GetStart(c, path) ==
    /\ CanStart(c)
    /\ LET id == path2id(path, options.obfuscatePassphrase)
           docEntry == metas[id]
           started == [IdleCall EXCEPT !.op = "get", !.id = id, !.path = path,
                                       !.expect = lastPut[id]]
       IN  IF ~IsMeta(docEntry)
           THEN /\ calls' = [calls EXCEPT ![c] =
                       [started EXCEPT !.pc = "done", !.res = NotPresent]]
                /\ UNCHANGED hashCaches
           ELSE IF ~CanDecryptDocumentPath(docEntry, options)
           THEN /\ calls' = [calls EXCEPT ![c] =
                       [started EXCEPT !.pc = "done", !.res = Threw("DecryptError")]]
                /\ UNCHANGED hashCaches
           ELSE LET doc == decryptDocumentPath(docEntry, options)
                    col == CollectCached(doc.children, <<>>, <<>>, hashCaches)
                IN  /\ hashCaches' = col.cache
                    /\ calls' = [calls EXCEPT ![c] =
                           IF col.reqIds = <<>>
                           THEN [started EXCEPT !.pc = "done", !.entry = doc,
                                                !.res = LoadedEntry(doc, col.ret)]
                           ELSE [started EXCEPT !.pc = "chunks", !.entry = doc,
                                                !.found = col.ret,
                                                !.req = unique(col.reqIds)]]
    /\ opsLeft' = opsLeft - 1
    /\ UNCHANGED <<options, metas, leaves, lastPut>>
    /\ UNCHANGED <<feedVars, pureVars>>

\* The remote answers _all_docs?include_docs=true {keys}; getByMeta assembles.
GetChunks(c) ==
    /\ calls[c].op = "get" /\ calls[c].pc = "chunks"
    /\ \E hasRows \in BOOLEAN :
         IF ~hasRows
         THEN /\ calls' = Finish(c, Threw("API Error (_all_docs)"))
              /\ UNCHANGED hashCaches
         ELSE LET rows == CollectRows(calls[c].req, calls[c].found, {}, hashCaches,
                                      leaves, options)
              IN  /\ hashCaches' = rows.cache
                  /\ calls' = IF rows.threw
                              THEN Finish(c, Threw("DecryptError"))
                              ELSE IF ~HasAllChunks(calls[c].entry, rows.ret)
                              THEN Finish(c, Threw("Missing chunks"))
                              ELSE Finish(c, LoadedEntry(calls[c].entry, rows.ret))
    /\ UNCHANGED <<options, metas, leaves, opsLeft, lastPut>>
    /\ UNCHANGED <<feedVars, pureVars>>

\* Another client of the database removes a leaf document (or the leaf has
\* not been replicated to this remote): its row in _all_docs has an error
RemoteDropLeaf ==
    /\ \E leaf \in leaves : leaves' = leaves \ {leaf}
    /\ UNCHANGED <<options, metas, hashCaches, calls, opsLeft, lastPut>>
    /\ UNCHANGED <<feedVars, pureVars>>

----------------------------------------------------------------------------
(* delete *)

\* newData of delete: the tombstone of oldData
Tombstone(oldData, now, opt) ==
    encryptDocumentPath(
        [type |-> oldData.type, _id |-> oldData._id, _rev |-> oldData._rev,
         path |-> oldData.path, children |-> <<>>, ctime |-> oldData.ctime,
         mtime |-> now, size |-> 0, deleted |-> TRUE], opt)

\* (mutant) delete does not look at the deleted mark
NeverDeleted(oldData) == FALSE
\* if (oldData.deleted)
AlreadyDeleted(oldData) == oldData.deleted

\* delete(path), to the answer of GET <id>: nothing to do when there is no
\* entry or it is deleted already; else the tombstone is PUT.
DeleteStart(c, path) ==
    /\ CanStart(c)
    /\ LET id == path2id(path, options.obfuscatePassphrase)
           docEntry == metas[id]
           started == [IdleCall EXCEPT !.op = "delete", !.id = id, !.path = path]
       IN  \E now \in NowTimes :
             calls' = [calls EXCEPT ![c] =
                 IF ~IsMeta(docEntry)
                 THEN [started EXCEPT !.pc = "done", !.res = Returned(TRUE)]
                 ELSE IF ~CanDecryptDocumentPath(docEntry, options)
                 THEN [started EXCEPT !.pc = "done", !.res = Threw("DecryptError")]
                 ELSE IF AlreadyDeleted(docEntry)
                 THEN [started EXCEPT !.pc = "done", !.res = Returned(TRUE)]
                 ELSE [started EXCEPT
                          !.pc = "delput",
                          !.entry = Tombstone(decryptDocumentPath(docEntry, options),
                                              now, options)]]
    /\ opsLeft' = opsLeft - 1
    /\ UNCHANGED <<options, metas, leaves, hashCaches, lastPut>>
    /\ UNCHANGED <<feedVars, pureVars>>

\* The remote serves PUT <id> of newData; delete returns ret.ok.
DeletePut(c) ==
    /\ calls[c].op = "delete" /\ calls[c].pc = "delput"
    /\ \E serverOk \in BOOLEAN :
         LET cur == metas[calls[c].id]
             accepted == serverOk /\ RevMatches(cur, calls[c].entry)
         IN  /\ metas' = IF accepted
                         THEN [metas EXCEPT ![calls[c].id] = StoredDoc(cur, calls[c].entry)]
                         ELSE metas
             /\ lastPut' = IF accepted
                           THEN [lastPut EXCEPT ![calls[c].id].live = FALSE]
                           ELSE lastPut
             /\ calls' = [Finish(c, Returned(accepted)) EXCEPT ![c].rejected = ~accepted]
    /\ UNCHANGED <<options, leaves, hashCaches, opsLeft>>
    /\ UNCHANGED <<feedVars, pureVars>>

\* The caller has the result; the slot is free again.
Return(c) ==
    /\ calls[c].pc = "done"
    /\ calls' = [calls EXCEPT ![c] = IdleCall]
    /\ UNCHANGED <<options, metas, leaves, hashCaches, opsLeft, lastPut>>
    /\ UNCHANGED <<feedVars, pureVars>>

----------------------------------------------------------------------------
(* The store *)

----------------------------------------------------------------------------
(* The change feed: beginWatch, endWatch, the reconnect timer, followUpdates.
   A seq is the position of a change in the remote feed; a document of the
   feed is known by what reading it does: "good" is read and assembled,
   "undecryptable" makes decryptDocumentPath throw, "missing" makes getByMeta
   throw. A callback returns or throws, whichever it likes. *)

Callbacks == {"cb1", "cb2"}
TheCallback == "cb1"
NoCallback == "none"
DocKinds == {"good", "undecryptable", "missing"}
Loops == 1..MaxLoops
NoLoop == 0
SinceEmpty == -1

NoLoopRec ==
    [pc |-> "none", cb |-> NoCallback, byTimer |-> FALSE, aborted |-> FALSE,
     reqSince |-> 0, pos |-> 0, buf |-> 0]

\* from, top, cbs and failed are history: the since the call started from, the
\* highest seq among the results it has processed (0: none), the seqs it gave
\* to the callback, and whether a request of it failed.
IdleFollow ==
    [pc |-> "idle", reqSince |-> 0, idx |-> 0, hi |-> 0, pending |-> 0,
     ret |-> SinceEmpty, from |-> 0, top |-> 0, cbs |-> <<>>,
     failed |-> FALSE]

AliveLoops == {l \in Loops : loops[l].pc # "none"}

FreeSlot ==
    CHOOSE l \in Loops \ AliveLoops : \A m \in Loops \ AliveLoops : l <= m

Min(a, b) == IF a <= b THEN a ELSE b

\* (mutant) abort() cancels nothing
AbortNothing(ls, k) == ls

\* AbortController.abort(): the fetch or the read of the loop that holds the
\* controller rejects at its next turn; a loop that has ended is not touched.
Abort(ls, k) ==
    [l \in Loops |->
        IF l = k /\ ls[l].pc # "none" THEN [ls[l] EXCEPT !.aborted = TRUE]
        ELSE ls[l]]

\* (mutant) a line does not move since
SinceKept(cur, seq) == cur
\* this.since = lineData.seq
SinceAfterLine(cur, seq) == seq

\* (mutant) the error of a line ends the loop
PcLineErrorHalts == "halted"
\* the catch of each line logs the error; the loop takes the next line
PcAfterLineError == "reading"
FollowPcAfterLineError == "iter"

Max(a, b) == IF a >= b THEN a ELSE b

\* (mutant) every page is requested from the start of the feed
FollowSinceZero(cur) == 0
\* since: this.since, of the request of a page
FollowSince(cur) == cur

\* (mutant) followUpdates returns the since it started from
FollowReturnsFrom(cur, from) == from
\* return this.since
FollowReturns(cur, from) == cur

\* beginWatch up to its await of _fetch; byTimer tells, while the request is
\* in flight, that the reconnect timer made the call
beginWatch(callback, byTimer) ==
    IF watching
    THEN UNCHANGED <<watching, abortController, since, loops>>
    ELSE LET l == FreeSlot
             s == IF since = SinceEmpty THEN 0 ELSE since
         IN /\ watching' = TRUE
            /\ since' = s
            /\ abortController' = l
            /\ loops' = [Abort(loops, abortController) EXCEPT ![l] =
                            [NoLoopRec EXCEPT !.pc = "connecting",
                                              !.cb = callback,
                                              !.byTimer = byTimer,
                                              !.reqSince = s,
                                              !.pos = s,
                                              !.buf = s]]

\* the caller calls beginWatch
BeginWatch(callback) ==
    /\ Cardinality(AliveLoops) + Len(timers) < MaxLoops
    /\ beginWatch(callback, FALSE)
    /\ stopRequested' = FALSE
    /\ UNCHANGED <<changes, timers, follow, endWatchCalled, lastLine, lastCbSeq>>
    /\ UNCHANGED <<storeVars, pureVars>>

\* the reconnect timer fires: () => this.beginWatch(callback)
TimerFire ==
    /\ timers # <<>>
    /\ beginWatch(Head(timers), TRUE)
    /\ timers' = Tail(timers)
    /\ UNCHANGED <<changes, follow, stopRequested, endWatchCalled, lastLine,
                   lastCbSeq>>
    /\ UNCHANGED <<storeVars, pureVars>>

\* the catch and the finally of beginWatch
finally(l) ==
    /\ loops' = [loops EXCEPT ![l] = NoLoopRec]
    /\ IF watching
       THEN /\ watching' = FALSE
            /\ timers' = Append(timers, loops[l].cb)
       ELSE UNCHANGED <<watching, timers>>

\* the _fetch of the continuous feed answers, or throws
WatchConnect(l) ==
    /\ loops[l].pc = "connecting"
    /\ \/ /\ ~loops[l].aborted
          /\ loops' = [loops EXCEPT ![l].pc = "reading",
                                    ![l].byTimer = FALSE]
          /\ UNCHANGED <<watching, timers>>
       \/ finally(l)
    /\ UNCHANGED <<abortController, since, changes, follow, stopRequested,
                   endWatchCalled, lastLine, lastCbSeq>>
    /\ UNCHANGED <<storeVars, pureVars>>

\* reader.read(): a chunk that holds the lines up to some change, or the end
\* of the stream, or a rejection
WatchRead(l) ==
    /\ loops[l].pc = "reading"
    /\ loops[l].pos = loops[l].buf
    /\ \/ /\ ~loops[l].aborted
          /\ \E k \in (loops[l].buf + 1)..Len(changes) :
                loops' = [loops EXCEPT ![l].buf = k]
          /\ UNCHANGED <<watching, timers>>
       \/ finally(l)
    /\ UNCHANGED <<abortController, since, changes, follow, stopRequested,
                   endWatchCalled, lastLine, lastCbSeq>>
    /\ UNCHANGED <<storeVars, pureVars>>

\* the next line of the chunk: JSON.parse, since, decryptDocumentPath
WatchLine(l) ==
    /\ loops[l].pc = "reading"
    /\ loops[l].pos < loops[l].buf
    /\ LET seq == loops[l].pos + 1
           failed == [loops[l] EXCEPT !.pos = seq, !.pc = PcAfterLineError]
       IN \/ /\ loops' = [loops EXCEPT ![l] = failed]
             /\ UNCHANGED <<since, lastLine>>
          \/ /\ since' = SinceAfterLine(since, seq)
             /\ lastLine' = seq
             /\ loops' = [loops EXCEPT ![l] =
                    IF changes[seq] = "undecryptable" THEN failed
                    ELSE [loops[l] EXCEPT !.pos = seq, !.pc = "assembling"]]
    /\ UNCHANGED <<watching, abortController, changes, timers, follow,
                   stopRequested, endWatchCalled, lastCbSeq>>
    /\ UNCHANGED <<storeVars, pureVars>>

\* getByMeta answers: the callback is called, or the error is logged
WatchAssemble(l) ==
    /\ loops[l].pc = "assembling"
    /\ IF changes[loops[l].pos] = "missing"
       THEN /\ loops' = [loops EXCEPT ![l].pc = PcAfterLineError]
            /\ UNCHANGED lastCbSeq
       ELSE /\ loops' = [loops EXCEPT ![l].pc = "callback"]
            /\ lastCbSeq' = loops[l].pos
    /\ UNCHANGED <<watching, abortController, since, changes, timers, follow,
                   stopRequested, endWatchCalled, lastLine>>
    /\ UNCHANGED <<storeVars, pureVars>>

\* the callback returns, or it throws and the error is logged: the loop goes
\* on the same way
WatchCallbackEnd(l) ==
    /\ loops[l].pc = "callback"
    /\ loops' = [loops EXCEPT ![l].pc = "reading"]
    /\ UNCHANGED <<watching, abortController, since, changes, timers, follow,
                   stopRequested, endWatchCalled, lastLine, lastCbSeq>>
    /\ UNCHANGED <<storeVars, pureVars>>

EndWatch ==
    /\ IF abortController # NoLoop
       THEN /\ watching' = FALSE
            /\ loops' = Abort(loops, abortController)
       ELSE UNCHANGED <<watching, loops>>
    /\ abortController' = NoLoop
    /\ stopRequested' = TRUE
    /\ endWatchCalled' = TRUE
    /\ UNCHANGED <<since, changes, timers, follow, lastLine, lastCbSeq>>
    /\ UNCHANGED <<storeVars, pureVars>>

\* a document is written on the remote database
RemoteChange ==
    /\ Len(changes) < MaxSeq
    /\ \E kind \in DocKinds : changes' = Append(changes, kind)
    /\ UNCHANGED <<watching, abortController, since, loops, timers, follow,
                   stopRequested, endWatchCalled, lastLine, lastCbSeq>>
    /\ UNCHANGED <<storeVars, pureVars>>

\* (mutant) the do-loop of followUpdates has no end
FollowGoesOnAlways(pending) == TRUE
\* while (pending > 0)
FollowGoesOn(pending) == pending > 0

\* followUpdates up to its first await of _fetch
FollowStart ==
    /\ follow.pc = "idle"
    /\ since' = IF since = SinceEmpty THEN 0 ELSE since
    /\ follow' = [IdleFollow EXCEPT !.pc = "fetch",
                                    !.reqSince = FollowSince(since'),
                                    !.from = since']
    /\ UNCHANGED <<watching, abortController, changes, loops, timers,
                   stopRequested, endWatchCalled, lastLine, lastCbSeq>>
    /\ UNCHANGED <<storeVars, pureVars>>

\* the page of the normal feed answers, or the request throws
FollowPage ==
    /\ follow.pc = "fetch"
    /\ \/ LET hi == Min(follow.reqSince + FollowLimit, Len(changes))
          IN follow' = [follow EXCEPT !.pc = "iter",
                                      !.idx = follow.reqSince,
                                      !.hi = IF hi < follow.reqSince
                                             THEN follow.reqSince ELSE hi,
                                      !.pending = IF hi < follow.reqSince
                                                  THEN 0 ELSE Len(changes) - hi]
       \/ follow' = [follow EXCEPT !.pc = "done", !.failed = TRUE,
                                    !.ret = FollowReturns(since, follow.from)]
    /\ UNCHANGED <<watching, abortController, since, changes, loops, timers,
                   stopRequested, endWatchCalled, lastLine, lastCbSeq>>
    /\ UNCHANGED <<storeVars, pureVars>>

\* the next result of the page, or the next page, or the return
FollowNext ==
    /\ follow.pc = "iter"
    /\ IF follow.idx < follow.hi
       THEN LET seq == follow.idx + 1
            IN /\ since' = SinceAfterLine(since, seq)
               /\ follow' =
                    IF changes[seq] = "undecryptable"
                    THEN [follow EXCEPT !.idx = seq,
                                        !.top = Max(@, seq),
                                        !.pc = FollowPcAfterLineError]
                    ELSE [follow EXCEPT !.idx = seq,
                                        !.top = Max(@, seq),
                                        !.pc = "assembling"]
       ELSE /\ follow' =
                    IF FollowGoesOn(follow.pending)
                    THEN [follow EXCEPT !.pc = "fetch",
                                        !.reqSince = FollowSince(since)]
                    ELSE [follow EXCEPT !.pc = "done",
                                        !.ret = FollowReturns(since, follow.from)]
            /\ UNCHANGED since
    /\ UNCHANGED <<watching, abortController, changes, loops, timers,
                   stopRequested, endWatchCalled, lastLine, lastCbSeq>>
    /\ UNCHANGED <<storeVars, pureVars>>

FollowAssemble ==
    /\ follow.pc = "assembling"
    /\ IF changes[follow.idx] = "missing"
       THEN /\ follow' = [follow EXCEPT !.pc = FollowPcAfterLineError]
            /\ UNCHANGED lastCbSeq
       ELSE /\ follow' = [follow EXCEPT !.pc = "callback",
                                        !.cbs = Append(@, follow.idx)]
            /\ lastCbSeq' = follow.idx
    /\ UNCHANGED <<watching, abortController, since, changes, loops, timers,
                   stopRequested, endWatchCalled, lastLine>>
    /\ UNCHANGED <<storeVars, pureVars>>

FollowCallbackEnd ==
    /\ follow.pc = "callback"
    /\ follow' = [follow EXCEPT !.pc = "iter"]
    /\ UNCHANGED <<watching, abortController, since, changes, loops, timers,
                   stopRequested, endWatchCalled, lastLine, lastCbSeq>>
    /\ UNCHANGED <<storeVars, pureVars>>

\* the caller has the returned since
FollowReturn ==
    /\ follow.pc = "done"
    /\ follow' = IdleFollow
    /\ UNCHANGED <<watching, abortController, since, changes, loops, timers,
                   stopRequested, endWatchCalled, lastLine, lastCbSeq>>
    /\ UNCHANGED <<storeVars, pureVars>>

----------------------------------------------------------------------------
(* readLines over readChunks: the line framing of a response body.         *)
(*                                                                         *)
(* A body is a sequence of bytes.  "a" and "b" are the one-byte characters  *)
(* of a line, "\n" is the newline byte, and LeadByte ContByte is the        *)
(* two-byte UTF-8 encoding of the character Char2.  Replacement is U+FFFD,  *)
(* which TextDecoder writes for a byte sequence that is not a character.    *)

LeadByte == "C3"
ContByte == "A9"
Char2 == "E9"
Replacement == "FFFD"
Newline == "\n"

\* the lines a body may carry, as bytes
\* the longest chunk: a body of MaxLines lines of three bytes and a newline
MaxChunk == 4 * MaxLines

BodyLines ==
    { <<"a">>, <<"a", "b">>, <<LeadByte, ContByte>>, <<"a", LeadByte, ContByte>> }

Bodies ==
    UNION { [1..n -> BodyLines] : n \in 1..MaxLines }

RECURSIVE Frame(_)
\* the bytes of a body: every line followed by its newline
Frame(lines) ==
    IF lines = <<>> THEN <<>>
    ELSE Head(lines) \o <<Newline>> \o Frame(Tail(lines))

RECURSIVE utf8Decode(_)
\* the UTF-8 decoding of one byte sequence, as TextDecoder does it
utf8Decode(bytes) ==
    IF bytes = <<>> THEN <<>>
    ELSE IF Head(bytes) = LeadByte /\ Len(bytes) >= 2 /\ bytes[2] = ContByte
         THEN <<Char2>> \o utf8Decode(SubSeq(bytes, 3, Len(bytes)))
    ELSE IF Head(bytes) \in {LeadByte, ContByte}
         THEN <<Replacement>> \o utf8Decode(Tail(bytes))
    ELSE <<Head(bytes)>> \o utf8Decode(Tail(bytes))

\* textDecoder.decode(chunk): every call decodes its chunk on its own, so a
\* lead byte at the end of a chunk and a continuation byte at the start of
\* one are each no character
decode(chunk) == utf8Decode(chunk)

RECURSIVE split(_)
\* chunkText.split('\n')
split(text) ==
    IF \A i \in 1..Len(text) : text[i] # Newline THEN <<text>>
    ELSE LET i == CHOOSE j \in 1..Len(text) :
                      /\ text[j] = Newline
                      /\ \A k \in 1..(j - 1) : text[k] # Newline
         IN  <<SubSeq(text, 1, i - 1)>> \o split(SubSeq(text, i + 1, Len(text)))

NoReader == [pc |-> "none", body |-> <<>>, rest |-> <<>>, partOfLine |-> <<>>,
             yielded |-> <<>>]

\* the lines one chunk makes readLines yield
LinesYielded(partOfLine, chunkLines) ==
    IF Len(chunkLines) = 1 THEN <<>>
    ELSE <<partOfLine \o chunkLines[1]>> \o SubSeq(chunkLines, 2, Len(chunkLines) - 1)

\* partOfLine after one chunk
PartAfter(partOfLine, chunkLines) ==
    IF Len(chunkLines) = 1 THEN partOfLine \o chunkLines[1]
    ELSE chunkLines[Len(chunkLines)]

\* reader.read() resolves with the next n bytes of the body; readLines
\* decodes and splits them
ReadChunk(n) ==
    /\ reader.pc = "reading"
    /\ n \in 1..Len(reader.rest)
    /\ LET chunk == SubSeq(reader.rest, 1, n)
           chunkLines == split(decode(chunk))
       IN  reader' = [reader EXCEPT
               !.rest = SubSeq(@, n + 1, Len(@)),
               !.yielded = @ \o LinesYielded(reader.partOfLine, chunkLines),
               !.partOfLine = PartAfter(reader.partOfLine, chunkLines)]
    /\ UNCHANGED <<storeVars, feedVars, enum>>

\* reader.read() resolves with done: readChunks and readLines return
ReadDone ==
    /\ reader.pc = "reading"
    /\ reader.rest = <<>>
    /\ reader' = [reader EXCEPT !.pc = "done"]
    /\ UNCHANGED <<storeVars, feedVars, enum>>

----------------------------------------------------------------------------
(* enumerateAllNormalDocs over _enumerate: the paged walk of _all_docs.     *)
(*                                                                         *)
(* A document id is a sequence of characters.  The remote orders ids       *)
(* character by character, in the order of KeyChars; Top is U+10FFFF, the   *)
(* highest.                                                                 *)

Top == "\\u{10ffff}"
KeyChars == <<":", "a", "h", "i", "m", "p", "s", "x", Top>>

Ord(ch) == CHOOSE i \in 1..Len(KeyChars) : KeyChars[i] = ch

RECURSIVE KeyLess(_, _)
\* a sorts before b in _all_docs
KeyLess(a, b) ==
    IF b = <<>> THEN FALSE
    ELSE IF a = <<>> THEN TRUE
    ELSE IF Head(a) # Head(b) THEN Ord(Head(a)) < Ord(Head(b))
    ELSE KeyLess(Tail(a), Tail(b))

KeyLessEq(a, b) == a = b \/ KeyLess(a, b)

IsPrefix(p, id) == Len(p) <= Len(id) /\ SubSeq(id, 1, Len(p)) = p

\* the prefixes of the ids that are no notes: chunks, hidden files, plugin data
ReservedPrefixes == { <<"h", ":">>, <<"i", ":">>, <<"i", "x", ":">>, <<"p", "s", ":">> }

IsReserved(id) == \E p \in ReservedPrefixes : IsPrefix(p, id)

\* the documents a remote may hold
ChunkIds == { <<"h", ":", "a">> }
VersionIds == { <<"x">> }
AllIds ==
    { <<"a">>, <<"a", "a">>, <<"a", "x">>, <<"a", "x", "x">>, <<"h", "a">>,
      <<"i", ":", "a">>,
      <<"i", "a">>, <<"i", "x", ":", "a">>, <<"m">>, <<"p", "s", ":", "a">>,
      <<"s">> } \cup ChunkIds \cup VersionIds

\* doc.type of the document stored under id
DocType(id) ==
    IF id \in ChunkIds THEN "leaf"
    ELSE IF id \in VersionIds THEN "versioninfo"
    ELSE IF IsPrefix(<<"i", ":">>, id) THEN "newnote"
    ELSE "plain"

\* "type" in docEntry && (docEntry.type == "plain" || docEntry.type == "newnote")
IsNormalDoc(id) == DocType(id) \in {"plain", "newnote"}

\* the five _enumerate generators of enumerateAllNormalDocs
Targets ==
    << [startKey |-> <<>>, endKey |-> <<"h", ":">>],
       [startKey |-> <<"h", ":", Top>>, endKey |-> <<"i", ":">>],
       [startKey |-> <<"i", ":", Top>>, endKey |-> <<"i", "x", ":">>],
       [startKey |-> <<"i", "x", ":", Top>>, endKey |-> <<"p", "s", ":">>],
       [startKey |-> <<"p", "s", ":", Top>>, endKey |-> <<Top>>] >>

\* the remote's answer to startkey and endkey: both are inclusive
InRange(id, startKey, endKey) == KeyLessEq(startKey, id) /\ KeyLessEq(id, endKey)

RECURSIVE Sorted(_)
Sorted(ids) ==
    IF ids = {} THEN <<>>
    ELSE LET first == CHOOSE a \in ids : \A b \in ids : KeyLessEq(a, b)
         IN  <<first>> \o Sorted(ids \ {first})

\* GET _all_docs?include_docs=true&startkey=..&endkey=..&limit=..
AllDocs(db, startKey, endKey) ==
    LET rows == Sorted({ id \in db : InRange(id, startKey, endKey) })
    IN  SubSeq(rows, 1, Min(Len(rows), PageLimit))

\* a startkey that is past the key of the last row of the page
NextKeySame(lastKey) == lastKey
NextKey(lastKey) == lastKey \o <<Top>>

\* the entries of a page that reach the caller: a task that throws gives an
\* err result, which is logged and passed over
YieldedUntilError(rows, bad) ==
    LET firstBad == { i \in 1..Len(rows) : rows[i] \in bad }
    IN  SelectSeq(SubSeq(rows, 1, IF firstBad = {} THEN Len(rows)
                                  ELSE (CHOOSE i \in firstBad : \A j \in firstBad : i <= j) - 1),
                  IsNormalDoc)
Yielded(rows, bad) ==
    SelectSeq(rows, LAMBDA id : IsNormalDoc(id) /\ id \notin bad)

Logged(rows, bad) ==
    SelectSeq(rows, LAMBDA id : IsNormalDoc(id) /\ id \in bad)

NoEnum == [pc |-> "none", db |-> {}, bad |-> {}, target |-> 1, key |-> <<>>,
           requests |-> <<>>, page |-> <<>>,
           yielded |-> <<>>, logged |-> <<>>, fetched |-> {}]

\* req(key): the _all_docs request for the page that starts at key
Req(key) == [startkey |-> key]

\* (mutant) the next page is not requested until the page is processed
NoReadAhead(key) == <<>>
\* request = req(key), while the page is yet to be processed
ReadAhead(key) == <<Req(key)>>

\* what a request of the current _enumerate from enum.key answers
EnumRows == AllDocs(enum.db, enum.key, Targets[enum.target].endKey)

\* const result = await request: the rows of the pre-started request
EnumAwaited ==
    AllDocs(enum.db, Head(enum.requests).startkey, Targets[enum.target].endKey)

\* one turn of the do-loop of _enumerate, to the tasks of the page: the
\* awaited page has rows, and the request of the next page is started
EnumPage ==
    /\ enum.pc = "running"
    /\ enum.requests # <<>>
    /\ EnumAwaited # <<>>
    /\ LET key == NextKey(EnumAwaited[Len(EnumAwaited)])
       IN  enum' = [enum EXCEPT
               !.pc = "processing",
               !.key = key,
               !.requests = Tail(@) \o ReadAhead(key),
               !.page = EnumAwaited]
    /\ UNCHANGED <<storeVars, feedVars, reader>>

\* the tasks of the page run and the caller is given their results
EnumProcess ==
    /\ enum.pc = "processing"
    /\ enum' = [enum EXCEPT
           !.pc = "running",
           !.page = <<>>,
           !.yielded = @ \o Yielded(enum.page, enum.bad),
           !.logged = @ \o Logged(enum.page, enum.bad),
           !.fetched = @ \cup Range(enum.page)]
    /\ UNCHANGED <<storeVars, feedVars, reader>>

\* the awaited page has no rows: this _enumerate returns, and
\* enumerateAllNormalDocs starts its next target, which makes its first
\* request
EnumTargetEnd ==
    /\ enum.pc = "running"
    /\ enum.requests # <<>>
    /\ EnumAwaited = <<>>
    /\ enum' = IF enum.target = Len(Targets)
               THEN [enum EXCEPT !.pc = "done", !.requests = Tail(@)]
               ELSE [enum EXCEPT !.target = @ + 1,
                                 !.key = Targets[enum.target + 1].startKey,
                                 !.requests = Tail(@) \o
                                     <<Req(Targets[enum.target + 1].startKey)>>]
    /\ UNCHANGED <<storeVars, feedVars, reader>>

PureIdle ==
    /\ reader = NoReader
    /\ enum = NoEnum

FeedIdle ==
    /\ watching = FALSE
    /\ abortController = NoLoop
    /\ since = SinceEmpty
    /\ changes = <<>>
    /\ loops = [l \in Loops |-> NoLoopRec]
    /\ timers = <<>>
    /\ follow = IdleFollow
    /\ stopRequested = FALSE
    /\ endWatchCalled = FALSE
    /\ lastLine = 0
    /\ lastCbSeq = 0

StoreIdle ==
    /\ metas = [id \in MetaIds |-> NoDoc]
    /\ leaves = {}
    /\ hashCaches = <<>>
    /\ calls = [c \in Calls |-> IdleCall]
    /\ opsLeft = MaxOps
    /\ lastPut = [id \in MetaIds |-> NoPut]

StoreInit ==
    /\ options \in Configs
    /\ StoreIdle
    /\ FeedIdle
    /\ PureIdle

WatchInit ==
    /\ options = [passphrase |-> "", obfuscatePassphrase |-> ""]
    /\ StoreIdle
    /\ FeedIdle
    /\ PureIdle

WatchSteps ==
    \/ EndWatch
    \/ TimerFire
    \/ \E l \in Loops :
        \/ WatchConnect(l)
        \/ WatchRead(l)
        \/ WatchLine(l)
        \/ WatchAssemble(l)
        \/ WatchCallbackEnd(l)
    \/ RemoteChange

WatchNext ==
    \/ \E callback \in Callbacks : BeginWatch(callback)
    \/ WatchSteps

FollowSteps ==
    \/ FollowStart
    \/ FollowPage
    \/ FollowNext
    \/ FollowAssemble
    \/ FollowCallbackEnd
    \/ FollowReturn

\* the caller gives the watcher and followUpdates one callback
FeedNext ==
    \/ BeginWatch(TheCallback)
    \/ WatchSteps
    \/ FollowSteps

SpecWatch == WatchInit /\ [][WatchNext]_vars

FairSpecWatch == SpecWatch /\ WF_vars(TimerFire)

SpecFeed == WatchInit /\ [][FeedNext]_vars

\* followUpdates with no watcher on the store
FollowAloneNext ==
    \/ FollowSteps
    \/ RemoteChange

SpecFollow == WatchInit /\ [][FollowAloneNext]_vars

\* ... whose requests are answered and whose callback returns
FairSpecFollow == SpecFollow /\ WF_vars(FollowSteps)

\* readLines over one body, cut into chunks in every way
LinesInit ==
    /\ options = [passphrase |-> "", obfuscatePassphrase |-> ""]
    /\ StoreIdle
    /\ FeedIdle
    /\ enum = NoEnum
    /\ \E body \in Bodies :
           reader = [pc |-> "reading", body |-> body, rest |-> Frame(body),
                     partOfLine |-> <<>>, yielded |-> <<>>]

LinesNext ==
    \/ \E n \in 1..MaxChunk : ReadChunk(n)
    \/ ReadDone

SpecLines == LinesInit /\ [][LinesNext]_vars

\* enumerateAllNormalDocs over a remote that holds any of the documents; the
\* task of at most one entry throws
EnumInit ==
    /\ options = [passphrase |-> "", obfuscatePassphrase |-> ""]
    /\ StoreIdle
    /\ FeedIdle
    /\ reader = NoReader
    /\ \E db \in SUBSET AllIds :
       \E bad \in {{}} \cup { {id} : id \in { d \in db : IsNormalDoc(d) } } :
           enum = [NoEnum EXCEPT !.pc = "running", !.db = db, !.bad = bad,
                                 !.key = Targets[1].startKey,
                                 !.requests = <<Req(Targets[1].startKey)>>]

EnumNext ==
    \/ EnumPage
    \/ EnumProcess
    \/ EnumTargetEnd

SpecEnum == EnumInit /\ [][EnumNext]_vars

StoreNext ==
    \E c \in Calls :
        \/ \E path \in Paths, inp \in PutInputs : PutStart(c, path, inp)
        \/ PutProbe(c)
        \/ PutBulk(c)
        \/ PutGetOld(c)
        \/ PutMeta(c)
        \/ \E path \in Paths : GetStart(c, path)
        \/ GetChunks(c)
        \/ \E path \in Paths : DeleteStart(c, path)
        \/ DeletePut(c)
        \/ Return(c)

Spec == StoreInit /\ [][StoreNext]_vars

\* What put(path, inp) and then delete(path) leave on an empty remote: the
\* leaves of the put and, under the id of the path, the tombstone.
PutThenDeleted(path, inp, now, opt) ==
    LET id == path2id(path, opt.obfuscatePassphrase)
        mk == MakeChunks(splitPieces2(inp.data, PieceSize), <<>>, <<>>, <<>>,
                         opt.passphrase)
        first == StoredDoc(NoDoc, TheEntry(id, path, mk.children, inp, opt))
        tomb == StoredDoc(first, Tombstone(decryptDocumentPath(first, opt), now, opt))
    IN  [id |-> id, tombstone |-> tomb, leaves |-> Range(LeafDocs(mk.chunks, opt))]

\* the options under which delete of an existing file goes through
DeletingConfigs == { opt \in Configs : opt.passphrase = "" \/ opt.obfuscatePassphrase # "" }

\* a store opened on a database in which a file was put and then deleted
DeletedInit ==
    /\ options \in DeletingConfigs
    /\ \E path \in Paths, now \in NowTimes :
         LET inp == [data |-> F_a, info |-> Info2, type |-> "plain"]
             was == PutThenDeleted(path, inp, now, options)
         IN  /\ metas = [id \in MetaIds |-> IF id = was.id THEN was.tombstone ELSE NoDoc]
             /\ leaves = was.leaves
             /\ lastPut = [id \in MetaIds |->
                              IF id = was.id
                              THEN [live |-> FALSE, text |-> Join(inp.data), info |-> inp.info]
                              ELSE NoPut]
    /\ hashCaches = <<>>
    /\ calls = [c \in Calls |-> IdleCall]
    /\ opsLeft = MaxOps
    /\ FeedIdle
    /\ PureIdle

SpecRevive == DeletedInit /\ [][StoreNext]_vars

\* the store over a remote that may lose leaf documents
DamagedNext ==
    \/ StoreNext
    \/ RemoteDropLeaf

SpecDamaged == StoreInit /\ [][DamagedNext]_vars


----------------------------------------------------------------------------
(* Claims about the store *)

IsPut(c) == calls[c].op = "put"
IsGet(c) == calls[c].op = "get"
IsDelete(c) == calls[c].op = "delete"
Done(c) == calls[c].pc = "done"
ReturnedTrue(c) == Done(c) /\ calls[c].res.kind = "bool" /\ calls[c].res.ok
RemoteFailed(c) == calls[c].res.kind = "throw" /\ calls[c].res.err = "API Error (_all_docs)"
TextOf(data) == Join([i \in DOMAIN data |-> data[i].t])
NewLeafIds == LeafIdsOf(leaves') \ LeafIdsOf(leaves)

\* C1: a get that read the metadata written by an accepted put (and whose
\* chunk request the remote answered) returns a loaded entry whose data,
\* joined, is the joined data of that put, with its size, ctime and mtime.
C1_RoundTrip ==
    \A c \in Calls :
        (IsGet(c) /\ Done(c) /\ calls[c].expect.live /\ ~RemoteFailed(c)) =>
            /\ calls[c].res.kind = "entry"
            /\ TextOf(calls[c].res.data) = calls[c].expect.text
            /\ calls[c].res.doc.size = calls[c].expect.info.size
            /\ calls[c].res.doc.ctime = calls[c].expect.info.ctime
            /\ calls[c].res.doc.mtime = calls[c].expect.info.mtime

\* C2: every id in the children of every metadata entry on the remote is the
\* id of a leaf document on the remote.
C2_ChildrenResolve ==
    \A id \in MetaIds :
        IsMeta(metas[id]) => Range(metas[id].children) \subseteq LeafIdsOf(leaves)

\* C2 witness: a metadata entry with children is on the remote while a put has
\* failed on a refused chunk.
C2_Witness ==
    /\ \E id \in MetaIds : IsMeta(metas[id]) /\ metas[id].children # <<>>
    /\ \E c \in Calls : IsPut(c) /\ Done(c) /\ calls[c].res.kind = "throw"
                        /\ calls[c].res.err = "Chunk uploading failed!"

\* C3: a put whose metadata PUT has been issued (or answered) has had the
\* answer of its _bulk_docs request.
C3_MetaAfterBulkAck ==
    \A c \in Calls :
        (IsPut(c) /\ (calls[c].pc = "putmeta" \/ (Done(c) /\ calls[c].res.kind = "bool")))
            => calls[c].acked

\* C3 witness: a put that uploaded a chunk has written its metadata.
C3_Witness ==
    \E c \in Calls : IsPut(c) /\ ReturnedTrue(c) /\ calls[c].upload # <<>>

\* C4: a put that finds a metadata entry for its id attaches the revision
\* that entry has then; and a metadata PUT of a put whose revision is not the
\* remote's current one (none for a missing entry) changes nothing on the
\* remote and the put returns false.
C4_RevisionDiscipline ==
    [][\A c \in Calls :
        /\ (IsPut(c) /\ calls[c].pc = "getold" /\ calls'[c].pc = "putmeta"
                /\ IsMeta(metas[calls[c].id]))
             => calls'[c].entry._rev = metas[calls[c].id]._rev
        /\ (IsPut(c) /\ calls[c].pc = "putmeta" /\ calls'[c].pc = "done"
                /\ ~RevMatches(metas[calls[c].id], calls[c].entry))
             => (metas' = metas /\ calls'[c].res = Returned(FALSE))]_vars

\* C4 witness: a put over a tombstone was accepted with the tombstone's revision.
C4_Witness ==
    \E c \in Calls :
        /\ IsPut(c) /\ ReturnedTrue(c) /\ calls[c].entry._rev = 2
        /\ metas[calls[c].id]._rev = 3 /\ ~metas[calls[c].id].deleted

\* C5: the documents put decides to upload are distinct and none of their ids
\* is on the remote when the existence check is answered; and the leaves a
\* _bulk_docs of a put creates are, for every metadata entry F on the remote,
\* at most one more than the children of the put that are not children of F,
\* and none of them is a child of F.
C5_Deduplication ==
    [][\A c \in Calls :
        /\ (IsPut(c) /\ calls'[c].op = "put" /\ calls'[c].pc = "bulk" /\ calls[c].pc # "bulk")
             => /\ EntryIds(calls'[c].upload) \cap LeafIdsOf(leaves) = {}
                /\ Cardinality(EntryIds(calls'[c].upload)) = Len(calls'[c].upload)
        /\ (calls[c].op = "idle" /\ calls'[c].op = "put")
             => /\ EntryIds(calls'[c].upload) \cap LeafIdsOf(leaves) = {}
                /\ Cardinality(EntryIds(calls'[c].upload)) = Len(calls'[c].upload)
        /\ (IsPut(c) /\ calls[c].pc = "bulk" /\ calls'[c].pc # "bulk")
             => \A id \in MetaIds :
                    IsMeta(metas[id]) =>
                        /\ Cardinality(NewLeafIds) <=
                             Cardinality(Range(calls[c].children) \ Range(metas[id].children)) + 1
                        /\ NewLeafIds \cap Range(metas[id].children) = {}]_vars

\* C5 witness: after a file of pieces ab, cd, a put of ab, ce has uploaded one
\* leaf and the remote holds three.
C5_Witness ==
    \E c \in Calls :
        /\ IsPut(c) /\ ReturnedTrue(c) /\ calls[c].input.data = F_abce
        /\ Len(calls[c].upload) = 1 /\ Cardinality(leaves) = 3

\* C6: a delete returns success whether the path is present, absent or
\* deleted already (stated for the deletes whose PUT the remote did not reject).
C6_DeleteSucceeds ==
    \A c \in Calls :
        (IsDelete(c) /\ Done(c) /\ ~calls[c].rejected) =>
            (calls[c].res.kind = "bool" /\ calls[c].res.ok)

----------------------------------------------------------------------------
(* Claims about the change feed *)

LoopOpens(l) == loops[l].pc = "none" /\ loops'[l].pc = "connecting"
LoopEnds(l) == loops[l].pc # "none" /\ loops'[l].pc = "none"
InLine(l) ==
    \/ loops[l].pc \in {"assembling", "callback"}
    \/ loops[l].pc = "reading" /\ loops[l].pos < loops[l].buf
FollowInLine ==
    \/ follow.pc \in {"assembling", "callback"}
    \/ follow.pc = "iter" /\ follow.idx < follow.hi

\* C7: a callback invocation starts only when no other invocation is running,
\* and the seq it is given is not below the seq given to the invocation
\* before it.
C7_CallbacksSerialized ==
    [][/\ \A l \in Loops :
            (loops[l].pc # "callback" /\ loops'[l].pc = "callback") =>
                /\ \A m \in Loops : loops[m].pc # "callback"
                /\ follow.pc # "callback"
                /\ loops'[l].pos >= lastCbSeq
       /\ (follow.pc # "callback" /\ follow'.pc = "callback") =>
                /\ \A m \in Loops : loops[m].pc # "callback"
                /\ follow'.idx >= lastCbSeq]_vars

\* C8: once endWatch has been called, no request of the continuous feed is
\* opened until the caller calls beginWatch again.
C8_NoReconnectAfterEndWatch ==
    [][\A l \in Loops : LoopOpens(l) => ~stopRequested']_vars

\* C9: when the request or the stream of a watcher ends and the caller has
\* not called endWatch, the reconnect timer is set with the callback of that
\* watcher; a set timer leads to a watcher being active; and the request the
\* timer opens has the callback of the timer and, as since, the seq of the
\* last line read ("0" when no line was read).
C9_AutoReconnect ==
    /\ [][\A l \in Loops :
            (LoopEnds(l) /\ ~endWatchCalled') =>
                timers' = Append(timers, loops[l].cb)]_vars
    /\ [][\A l \in Loops :
            (LoopOpens(l) /\ loops'[l].byTimer) =>
                /\ loops'[l].cb = Head(timers)
                /\ loops'[l].reqSince = lastLine]_vars
    /\ (timers # <<>>) ~> watching

C9_Witness ==
    \E l \in Loops :
        /\ loops[l].pc = "connecting"
        /\ loops[l].byTimer
        /\ loops[l].reqSince = lastLine
        /\ lastLine > 0
        /\ ~endWatchCalled

\* C10: handling a line of the feed (parsing it, decrypting the path,
\* assembling the chunks, calling the callback) never ends the loop nor skips
\* a line, in beginWatch and in followUpdates: after a line that failed the
\* next line is handled, and a good document is given to the callback.
C10_ErrorsDoNotHalt ==
    [][/\ \A l \in Loops : InLine(l) =>
            /\ loops'[l].pc \in {"reading", "assembling", "callback"}
            /\ loops'[l].pos \in {loops[l].pos, loops[l].pos + 1}
            /\ loops'[l].buf = loops[l].buf
            /\ (loops[l].pc = "assembling" /\ loops'[l].pc # "assembling"
                    /\ changes[loops[l].pos] = "good") =>
                        loops'[l].pc = "callback"
       /\ FollowInLine =>
            /\ follow'.pc \in {"iter", "assembling", "callback"}
            /\ follow'.idx \in {follow.idx, follow.idx + 1}
            /\ follow'.hi = follow.hi
            /\ (follow.pc = "assembling" /\ follow'.pc # "assembling"
                    /\ changes[follow.idx] = "good") =>
                        follow'.pc = "callback"]_vars

C10_Witness ==
    \E l \in Loops :
        /\ loops[l].pc = "callback"
        /\ loops[l].reqSince = 0
        /\ loops[l].pos = 2
        /\ changes[1] # "good"

\* the seqs of lo+1 .. hi whose document is read and assembled, ascending
RECURSIVE GoodSeqs(_, _)
GoodSeqs(lo, hi) ==
    IF hi <= lo THEN <<>>
    ELSE GoodSeqs(lo, hi - 1) \o (IF changes[hi] = "good" THEN <<hi>> ELSE <<>>)

\* C11: when followUpdates returns, the value it returns and the since of the
\* store are the highest seq among the results the call processed, or the
\* since the call started from ("0" for an empty one) when it processed none.
C11_FollowReturnsMaxSeq ==
    follow.pc = "done" =>
        /\ follow.ret = since
        /\ follow.ret = (IF follow.top = 0 THEN follow.from ELSE follow.top)
        /\ follow.from >= 0

C11_Witness ==
    /\ follow.pc = "done"
    /\ follow.top = 2
    /\ follow.ret = 2
    /\ ~follow.failed

\* C12: a followUpdates call gives the callback the documents changed after
\* the since it started from, each once and in the order of the feed, and no
\* other: those up to the result it is at while it runs, and when it returns
\* without a failed request all those the feed had at its last page.
C12_FollowResumes ==
    /\ follow.pc \in {"iter", "callback", "done"} =>
            follow.cbs = GoodSeqs(follow.from, follow.idx)
    /\ follow.pc = "assembling" =>
            follow.cbs = GoodSeqs(follow.from, follow.idx - 1)
    /\ (follow.pc = "done" /\ ~follow.failed) =>
            /\ follow.pending = 0
            /\ follow.ret = follow.hi

C12_Witness ==
    /\ follow.pc = "done"
    /\ ~follow.failed
    /\ follow.from = 1
    /\ follow.cbs = <<2>>

\* C13: for every body of n newline-terminated lines and every way to cut
\* its bytes into chunks, readLines yields exactly the n lines, each intact
\* and in order.
C13_LinesIntact ==
    reader.pc = "done" =>
        reader.yielded = [i \in 1..Len(reader.body) |-> utf8Decode(reader.body[i])]

\* cuts inside a line and at a newline keep the framing: a body whose
\* chunks all hold whole characters is framed right
WholeCharChunksFramed ==
    (reader.pc = "done" /\ \A i \in 1..Len(reader.yielded) :
                              \A j \in 1..Len(reader.yielded[i]) :
                                  reader.yielded[i][j] # Replacement) =>
        reader.yielded = [i \in 1..Len(reader.body) |-> utf8Decode(reader.body[i])]

\* the targets whose key range holds id
TargetsOf(id) ==
    { t \in 1..Len(Targets) : InRange(id, Targets[t].startKey, Targets[t].endKey) }

NoDuplicates(seq) ==
    \A i, j \in 1..Len(seq) : i # j => seq[i] # seq[j]

\* C14: the five key ranges of enumerateAllNormalDocs are pairwise disjoint
\* and hold no id under a reserved prefix, and no entry is yielded twice,
\* neither by two ranges nor by two pages of one range.
C14_EnumerationDisjoint ==
    /\ \A id \in enum.db : Cardinality(TargetsOf(id)) <= 1
    /\ \A id \in enum.db : IsReserved(id) => TargetsOf(id) = {}
    /\ NoDuplicates(enum.yielded)
    /\ \A i \in 1..Len(enum.yielded) : ~IsReserved(enum.yielded[i])

C14_Witness ==
    /\ enum.pc = "done"
    /\ enum.bad = {}
    /\ enum.db = AllIds
    /\ Len(enum.yielded) = 8

\* C15: the enumeration yields every metadata entry (type plain or newnote)
\* whose id is under no reserved prefix, an entry whose id has the last id
\* of an earlier page as a proper prefix included.
C15_EnumerationComplete ==
    enum.pc = "done" =>
        \A id \in enum.db :
            (IsNormalDoc(id) /\ ~IsReserved(id) /\ id \notin enum.bad)
                => id \in Range(enum.yielded)

\* C19: an entry whose task throws is logged and passed over, and the
\* enumeration goes on: every other entry of the rows it has fetched is
\* yielded, and it ends only when the last range has no more rows.
C19_EnumerationSkipsFailures ==
    /\ Range(enum.yielded) =
           { id \in enum.fetched : IsNormalDoc(id) /\ id \notin enum.bad }
    /\ Range(enum.logged) =
           { id \in enum.fetched : IsNormalDoc(id) /\ id \in enum.bad }
    /\ enum.pc = "done" =>
           /\ enum.target = Len(Targets)
           /\ EnumRows = <<>>
           /\ \A t \in 1..Len(Targets) :
                  \A id \in enum.db :
                      (InRange(id, Targets[t].startKey, Targets[t].endKey)
                           /\ ~\E q \in enum.fetched :
                                  q # id /\ IsPrefix(q, id) /\ TargetsOf(q) = {t})
                          => id \in enum.fetched

C19_Witness ==
    /\ enum.pc = "done"
    /\ enum.logged = << <<"a">> >>
    /\ enum.yielded = << <<"a", "x">>, <<"h", "a">>, <<"s">> >>

\* C16: with obfuscatePassphrase set, with or without a passphrase, a get
\* that read the metadata written by an accepted put returns the entry, not
\* false and not an error, and the entry's path is the clear path of the put.
C16_ObfuscatedPathRoundTrip ==
    \A c \in Calls :
        (IsGet(c) /\ Done(c) /\ calls[c].expect.live /\ ~RemoteFailed(c)
             /\ options.obfuscatePassphrase # "") =>
            /\ calls[c].res.kind = "entry"
            /\ calls[c].res.doc.path = Clear(calls[c].path)

\* the get in slot c returns or throws in this step
GetEnds(c) == calls[c].pc # "done" /\ calls'[c].pc = "done" /\ calls'[c].op = "get"

\* a child of the metadata entry has no leaf on the remote
MissingOnRemote(doc) ==
    IsMeta(doc) /\ \E i \in DOMAIN doc.children : doc.children[i] \notin LeafIdsOf(leaves)

\* a child that _collectChunks asks the remote for has no leaf there
RequestedMissing(c) ==
    calls[c].pc = "chunks" /\ \E k \in Range(calls[c].req) : k \notin LeafIdsOf(leaves)

\* every piece of the data is the content its child id is the hash of
DataWhole(res) ==
    /\ Len(res.data) = Len(res.doc.children)
    /\ \A i \in DOMAIN res.data :
          /\ res.data[i].k = ""
          /\ LeafId(res.data[i].t, options.passphrase) = res.doc.children[i]

\* C17 (as stated): a get of a metadata entry of which a child has no leaf on
\* the remote fails with an error.
C17_MissingLeafFails ==
    [][\A c \in Calls :
          (GetEnds(c) /\ MissingOnRemote(calls'[c].entry)) => calls'[c].res.kind = "throw"]_vars

\* C17 (amended): a get fails with an error when a child that is not in the
\* chunk cache has no leaf on the remote, and a get that returns a loaded
\* entry returns, for every child, the content that child id stands for.
C17_UncachedMissingLeafFails ==
    [][\A c \in Calls :
          GetEnds(c) =>
              /\ RequestedMissing(c) => calls'[c].res.kind = "throw"
              /\ calls'[c].res.kind = "entry" => DataWhole(calls'[c].res)]_vars

C17_Witness ==
    \E c \in Calls : IsGet(c) /\ Done(c) /\ calls[c].res = Threw("Missing chunks")

\* the put in slot c reads the results of its _bulk_docs request in this step
BulkAnswered(c) ==
    calls[c].op = "put" /\ calls[c].pc = "bulk" /\ ~calls[c].acked /\ calls'[c].acked

\* the uploaded documents the remote had already: their result is a conflict
ConflictDocs(c) == { i \in DOMAIN calls[c].upload : calls[c].upload[i].id \in LeafIdsOf(leaves) }

\* the uploaded documents the remote does not hold after the request: their
\* result is an error other than conflict
RefusedDocs(c) == { i \in DOMAIN calls[c].upload : calls[c].upload[i].id \notin LeafIdsOf(leaves') }

\* C18: when every error among the results of the bulk upload is a conflict,
\* put goes on to the metadata PUT (by way of reading the prior revision);
\* when a result has another error, put fails and the metadata documents on
\* the remote stay as they are.
C18_ConflictIsSuccess ==
    [][\A c \in Calls :
          BulkAnswered(c) =>
              /\ RefusedDocs(c) = {} => calls'[c].pc = "getold"
              /\ RefusedDocs(c) # {} =>
                     /\ calls'[c].pc = "done"
                     /\ calls'[c].res = Threw("Chunk uploading failed!")
                     /\ metas' = metas]_vars

\* C18 witness: two puts have uploaded the same chunk and both have written
\* their metadata: the later upload was answered with a conflict.
C18_Witness ==
    \E c1, c2 \in Calls :
        /\ c1 # c2
        /\ IsPut(c1) /\ ReturnedTrue(c1)
        /\ IsPut(c2) /\ ReturnedTrue(c2)
        /\ EntryIds(calls[c1].upload) \cap EntryIds(calls[c2].upload) # {}

\* C20: across every interleaving of beginWatch runs, reconnects and
\* followUpdates calls on one store, since never moves to an earlier seq;
\* stated for the runs in which endWatch is never called.
C20_SinceMonotonic ==
    [][~endWatchCalled' => since' >= since]_vars

\* C21: a followUpdates call whose requests are answered (or fail) comes to
\* its return; a failed request ends it at once, and what it returns then is
\* the since of the store.
C21_FollowCompletes ==
    /\ (follow.pc = "fetch") ~> (follow.pc = "done")
    /\ [][(follow.pc = "fetch" /\ follow'.failed) =>
              (follow'.pc = "done" /\ follow'.ret = since)]_vars

C21_Witness ==
    follow.pc = "done" /\ follow.failed /\ follow.top = 1 /\ Len(changes) = 2

\* C22: at every point of the enumeration at most one page request is
\* issued and not yet awaited; while the entries of a page are processed the
\* request of the page after it is already issued; and a range ends exactly
\* at the first page that has no rows.
C22_ReadAheadBounded ==
    [][/\ Len(enum'.requests) <= 1
       /\ enum'.pc = "processing" =>
              enum'.requests = <<Req(NextKey(enum'.page[Len(enum'.page)]))>>
       /\ (enum.pc = "running" /\ enum.requests # <<>>) =>
              ((enum'.target # enum.target \/ enum'.pc = "done")
                   <=> EnumAwaited = <<>>)]_vars

C22_Witness ==
    /\ enum.pc = "processing"
    /\ enum.target = 1
    /\ enum.page = << <<"a", "x">> >>
    /\ enum.yielded = << <<"a">>, <<"a", "a">> >>
    /\ enum.requests = <<Req(<<"a", "x", Top>>)>>

\* the put in slot c returns true in this step
PutReturnsTrue(c) ==
    /\ calls[c].pc # "done"
    /\ calls'[c].pc = "done"
    /\ calls'[c].op = "put"
    /\ calls'[c].res = Returned(TRUE)

\* C23: when put returns true, the cache maps the id of every leaf the put
\* uploaded to its plaintext piece, and the piece back to the id.
C23_UploadPopulatesCache ==
    [][\A c \in Calls :
          PutReturnsTrue(c) =>
              \A i \in DOMAIN calls'[c].upload :
                  LET id == calls'[c].upload[i].id
                      piece == EntryOf(calls'[c].chunks, id).piece
                  IN  /\ LRUHas(hashCaches', id)
                      /\ LRUGet(hashCaches', id) = piece
                      /\ LRURevHas(hashCaches', piece)
                      /\ LRURevGet(hashCaches', piece) = id]_vars

\* the call in slot c is a delete that starts in this step
DeleteBegins(c) == calls[c].op # "delete" /\ calls'[c].op = "delete"

\* the remote has no metadata entry under id, or a deleted one
AbsentOrDeleted(id) == ~IsMeta(metas[id]) \/ metas[id].deleted

\* C24: a delete of a path that has no metadata entry, or a deleted one, is
\* over once it has read the entry, and leaves every document of the remote
\* as it was.
C24_DeleteOfAbsentWritesNothing ==
    [][\A c \in Calls :
          (DeleteBegins(c) /\ AbsentOrDeleted(calls'[c].id)) =>
              /\ calls'[c].pc = "done"
              /\ metas' = metas
              /\ leaves' = leaves]_vars

\* C24 witness: a delete has returned without building a tombstone, while
\* the entry of its path is a tombstone.
C24_Witness ==
    \E c \in Calls :
        /\ IsDelete(c) /\ ReturnedTrue(c)
        /\ calls[c].entry = NoDoc
        /\ IsMeta(metas[calls[c].id]) /\ metas[calls[c].id].deleted

\* the remote is as a put and a delete of the path have left it
RemoteAfterPutThenDelete ==
    \E path \in Paths, now \in NowTimes :
        LET was == PutThenDeleted(path, [data |-> F_a, info |-> Info2, type |-> "plain"],
                                  now, options)
        IN  /\ metas[was.id] = was.tombstone
            /\ leaves = was.leaves

IsTombstone(doc) == IsMeta(doc) /\ doc.deleted

\* C25: a put over a tombstone attaches the tombstone's _rev; when the remote
\* accepts its metadata PUT, the entry is no longer deleted and has the
\* children, size and timestamps of the put, with the next revision; and a get
\* that reads the entry of an accepted put returns that put's content.
C25_PutRevives ==
    /\ [][\A c \in Calls :
            /\ (IsPut(c) /\ calls[c].pc = "getold" /\ calls'[c].pc # "getold"
                    /\ IsTombstone(metas[calls[c].id]))
                 => /\ calls'[c].pc = "putmeta"
                    /\ calls'[c].entry._rev = metas[calls[c].id]._rev
            /\ (IsPut(c) /\ calls[c].pc = "putmeta" /\ IsTombstone(metas[calls[c].id])
                    /\ calls'[c].res = Returned(TRUE))
                 => /\ ~metas'[calls[c].id].deleted
                    /\ metas'[calls[c].id]._rev = metas[calls[c].id]._rev + 1
                    /\ metas'[calls[c].id].children = calls[c].children
                    /\ metas'[calls[c].id].size = calls[c].input.info.size
                    /\ metas'[calls[c].id].ctime = calls[c].input.info.ctime
                    /\ metas'[calls[c].id].mtime = calls[c].input.info.mtime]_vars
    /\ [](\A c \in Calls :
            (IsGet(c) /\ Done(c) /\ calls[c].expect.live /\ ~RemoteFailed(c)) =>
                /\ calls[c].res.kind = "entry"
                /\ ~calls[c].res.doc.deleted
                /\ TextOf(calls[c].res.data) = calls[c].expect.text)

\* C25 witness: a get has returned the content of a put that was written
\* over the tombstone.
C25_Witness ==
    \E c \in Calls :
        /\ IsGet(c) /\ Done(c) /\ calls[c].res.kind = "entry"
        /\ calls[c].res.doc._rev = 3
        /\ TextOf(calls[c].res.data) = Join(F_abce)

\* the call in slot c is a put or a delete that has had the answer to its
\* metadata PUT
HasPutMeta(c) ==
    /\ Done(c)
    /\ calls[c].res.kind = "bool"
    /\ \/ IsPut(c)
       \/ IsDelete(c) /\ calls[c].entry # NoDoc

\* what the remote holds after it has accepted the PUT of the call in slot c
WrittenBy(c) == [calls[c].entry EXCEPT !._rev = @ + 1]

\* C26: of two puts, or a put and a delete, of one path that have read the
\* same prior revision (or both none), at most one returns true; and when one
\* has, the metadata entry on the remote is the one it wrote.
C26_NoLostUpdate ==
    \A c1, c2 \in Calls :
        (c1 # c2 /\ HasPutMeta(c1) /\ HasPutMeta(c2)
             /\ calls[c1].id = calls[c2].id
             /\ calls[c1].entry._rev = calls[c2].entry._rev) =>
            /\ ~(calls[c1].res.ok /\ calls[c2].res.ok)
            /\ calls[c1].res.ok => metas[calls[c1].id] = WrittenBy(c1)

\* C26 witness: a put and a delete have read revision 1; the put has
\* returned true and the delete false.
C26_Witness ==
    \E c1, c2 \in Calls :
        /\ IsPut(c1) /\ HasPutMeta(c1) /\ calls[c1].res.ok
        /\ IsDelete(c2) /\ HasPutMeta(c2) /\ ~calls[c2].res.ok
        /\ calls[c1].entry._rev = 1 /\ calls[c2].entry._rev = 1

\* C27: at most one continuous _changes stream is open per store.  A
\* beginWatch that finds watching set opens no connection (a loop opens only
\* on a step that starts with watching false and sets it).  Under every
\* interleaving of beginWatch, endWatch and the reconnect timer, at most one
\* beginWatch loop holds a request of the feed that has not been aborted, and
\* that loop is the one the store's abort controller belongs to: every other
\* loop that has not ended yet has had its request aborted and reads no more
\* of the feed.
OpenStreams == {l \in AliveLoops : ~loops[l].aborted}

====
